---- MODULE Spec2Model ----
(***************************************************************************)
(* Model of the roadmap service in src/main.py: a FastAPI application with *)
(* two routes, GET / (home) and GET /roadmap/{topic}                       *)
(* (get_generated_response), the generation call get_ai, and the handler   *)
(* registered for Exception (global_exception_handler).                    *)
(*                                                                         *)
(* The r-th request received occupies slot r of Req.  Strings whose length *)
(* matters (the topic) are sequences of characters; a formatted string is  *)
(* the sequence of its fragments, so that "contains" is membership of a    *)
(* fragment.                                                               *)
(* The variables genCalls, genOut and sent are history variables: the       *)
(* program does not keep them.  Handlers of different requests interleave  *)
(* at every step, which covers every scheduling a hosting server can give. *)
(***************************************************************************)
EXTENDS Integers, Sequences, FiniteSets, TLC

\* ---------------------------------------------------------------- bounds
MaxRequests == 2
MaxClock == 1

\* ------------------------------------------------------ program constants
MaxTopicLen == 100
HTTP_200_OK == 200
HTTP_400_BAD_REQUEST == 400
HTTP_500_INTERNAL_SERVER_ERROR == 500

Req == 1..MaxRequests
Clock == 0..MaxClock

Rep(c, n) == [i \in 1..n |-> c]

\* Topics the handler is called with: the empty string (which the check of
\* line 85 provides for), "Python", and the two sides of the length bound.
Topics ==
    { <<>>, <<"P", "y", "t", "h", "o", "n">>,
      Rep("a", MaxTopicLen), Rep("a", MaxTopicLen + 1) }

\* What chain.invoke can do: return a text or raise with a message.
GenTexts == {"Step 1...", "Step A..."}
GenErrors == {"quota exceeded"}

NoExc == [type |-> "none"]
NoResp == [status_code |-> 0]
NoOut == [kind |-> "none"]

VARIABLES pc, route, topic, exc, resp, sent, genCalls, genOut, log, now

vars == <<pc, route, topic, exc, resp, sent, genCalls, genOut, log, now>>

\* ------------------------------------------------------------ module level
\* The names main.py binds at module level.  HTTPStatus is used at lines 88
\* and 113 but never imported, so evaluating it raises NameError.
HTTPStatusDefined == FALSE

NameErrorHTTPStatus == [type |-> "NameError", msg |-> "name 'HTTPStatus' is not defined"]

HTTPException(code, detail) ==
    [type |-> "HTTPException", status_code |-> code, detail |-> detail]

\* logger.<level>(...): one record appended to the log; log[r] is the
\* sequence of the records written on behalf of request r.
LogRecord(level, event, t, text) ==
    [level |-> level, event |-> event, topic |-> t, text |-> text]

\* ---------------------------------------------------------------- helpers
\* The check without its emptiness test.
InvalidTopicOnlyLong(t) == Len(t) > MaxTopicLen

\* `not topic or len(topic) > 100`
InvalidTopic(t) == t = <<>> \/ Len(t) > MaxTopicLen

\* The exception the `raise HTTPException(status_code=HTTPStatus.X, ...)`
\* statement ends with: evaluating the argument fails before the call.
RaiseHTTPException(code, detail) ==
    IF HTTPStatusDefined THEN HTTPException(code, detail) ELSE NameErrorHTTPStatus

\* The echoed topic read from a value the requests share, set by the latest
\* request received.
EchoTopicShared(r) ==
    topic[CHOOSE q \in Req :
            /\ pc[q] # "idle"
            /\ \A p \in Req : pc[p] # "idle" => p <= q]

\* The topic the success envelope echoes: the handler's own parameter.
EchoTopic(r) == topic[r]

\* The envelope with the topic left at its default.
EnvelopeNoTopic(t, g, ts) ==
    [status_code |-> HTTP_200_OK,
     body |-> [status |-> 200, timestamp |-> ts,
               response |-> [topic |-> <<>>, data |-> g]]]

\* JSONResponse(content=roadmap_data.dict()): status 200 by default.
Envelope(t, g, ts) ==
    [status_code |-> HTTP_200_OK,
     body |-> [status |-> 200, timestamp |-> ts,
               response |-> [topic |-> t, data |-> g]]]

\* The static text of the root endpoint, and another text in its place.
HomeDataOther == "Service is up"

HomeData == "This service is working"

\* The detail of the HTTPException of the except clause.
GenerationFailureDetail(m, ts) ==
    [status |-> 500, timestamp |-> ts,
     message |-> <<"Failed to generate roadmap: ", m>>]

\* str(exc) of the exception the global handler receives.
Str(e) ==
    IF e.type = "HTTPException" THEN "HTTPException" ELSE e.msg

\* The handler's response with a fixed detail instead of str(exc).
GlobalErrorResponseGeneric(e) ==
    [status_code |-> HTTP_500_INTERNAL_SERVER_ERROR,
     body |-> [error |-> "Internal Server Error", detail |-> "Internal Server Error"]]

\* JSONResponse(status_code=500, content={error, detail: str(exc)})
GlobalErrorResponse(e) ==
    [status_code |-> HTTP_500_INTERNAL_SERVER_ERROR,
     body |-> [error |-> "Internal Server Error", detail |-> Str(e)]]

\* ------------------------------------------------------------------- Init
Init ==
    /\ pc = [r \in Req |-> "idle"]
    /\ route = [r \in Req |-> "none"]
    /\ topic = [r \in Req |-> <<>>]
    /\ exc = [r \in Req |-> NoExc]
    /\ resp = [r \in Req |-> NoResp]
    /\ sent = [r \in Req |-> 0]
    /\ genCalls = [r \in Req |-> 0]
    /\ genOut = [r \in Req |-> NoOut]
    /\ log = [r \in Req |-> <<>>]
    /\ now = 0

\* ---------------------------------------------------------------- actions
\* The clock datetime.utcnow() reads.
Tick ==
    /\ now < MaxClock
    /\ now' = now + 1
    /\ UNCHANGED <<pc, route, topic, exc, resp, sent, genCalls, genOut, log>>

\* The framework routes an incoming request to one of the two endpoints;
\* slot r holds the r-th request the server receives.
Request(r, k, t) ==
    /\ pc[r] = "idle"
    /\ \A q \in Req : q < r => pc[q] # "idle"
    /\ k \in {"home", "roadmap"}
    /\ k = "home" => t = <<>>
    /\ pc' = [pc EXCEPT ![r] = "start"]
    /\ route' = [route EXCEPT ![r] = k]
    /\ topic' = [topic EXCEPT ![r] = t]
    /\ UNCHANGED <<exc, resp, sent, genCalls, genOut, log, now>>

\* GET /
home(r) ==
    /\ pc[r] = "start"
    /\ route[r] = "home"
    /\ log' = [log EXCEPT ![r] = Append(@, LogRecord("INFO", "Root endpoint accessed", <<>>, ""))]
    /\ resp' = [resp EXCEPT ![r] = Envelope(<<>>, HomeData, now)]
    /\ sent' = [sent EXCEPT ![r] = @ + 1]
    /\ pc' = [pc EXCEPT ![r] = "done"]
    /\ UNCHANGED <<route, topic, exc, genCalls, genOut, now>>

\* GET /roadmap/{topic}, up to the point where chain.invoke is in flight.
get_generated_response(r) ==
    /\ pc[r] = "start"
    /\ route[r] = "roadmap"
    /\ IF InvalidTopic(topic[r])
       THEN /\ log' = [log EXCEPT ![r] = Append(@, LogRecord("WARNING", "Invalid topic length", topic[r], ""))]
            /\ exc' = [exc EXCEPT ![r] =
                         RaiseHTTPException(HTTP_400_BAD_REQUEST,
                                            "Topic must be between 1-100 characters")]
            /\ pc' = [pc EXCEPT ![r] = "raised"]
            /\ UNCHANGED genCalls
       ELSE /\ log' = [log EXCEPT ![r] = Append(@, LogRecord("INFO", "Generating roadmap for", topic[r], ""))]
            /\ genCalls' = [genCalls EXCEPT ![r] = @ + 1]
            /\ pc' = [pc EXCEPT ![r] = "awaiting"]
            /\ UNCHANGED exc
    /\ UNCHANGED <<route, topic, resp, sent, genOut, now>>

\* chain.invoke returns g: the rest of the try block.
get_ai_returns(r, g) ==
    /\ pc[r] = "awaiting"
    /\ genOut' = [genOut EXCEPT ![r] = [kind |-> "text", value |-> g]]
    /\ log' = [log EXCEPT ![r] = Append(@, LogRecord("INFO", "Successfully generated roadmap for", topic[r], ""))]
    /\ resp' = [resp EXCEPT ![r] = Envelope(EchoTopic(r), g, now)]
    /\ sent' = [sent EXCEPT ![r] = @ + 1]
    /\ pc' = [pc EXCEPT ![r] = "done"]
    /\ UNCHANGED <<route, topic, exc, genCalls, now>>

\* chain.invoke raises with message m, retried once by a second call.
get_ai_raises_retry(r, m) ==
    /\ pc[r] = "awaiting"
    /\ genOut' = [genOut EXCEPT ![r] = [kind |-> "error", value |-> m]]
    /\ log' = [log EXCEPT ![r] = Append(@, LogRecord("ERROR", "Error generating roadmap for", topic[r], m))]
    /\ IF genCalls[r] < 2
       THEN /\ genCalls' = [genCalls EXCEPT ![r] = @ + 1]
            /\ UNCHANGED <<exc, pc>>
       ELSE /\ exc' = [exc EXCEPT ![r] =
                         RaiseHTTPException(HTTP_500_INTERNAL_SERVER_ERROR,
                                            GenerationFailureDetail(m, now))]
            /\ pc' = [pc EXCEPT ![r] = "raised"]
            /\ UNCHANGED genCalls
    /\ UNCHANGED <<route, topic, resp, sent, now>>

\* chain.invoke raises with message m: the except clause.
get_ai_raises(r, m) ==
    /\ pc[r] = "awaiting"
    /\ genOut' = [genOut EXCEPT ![r] = [kind |-> "error", value |-> m]]
    /\ log' = [log EXCEPT ![r] = Append(@, LogRecord("ERROR", "Error generating roadmap for", topic[r], m))]
    /\ exc' = [exc EXCEPT ![r] =
                 RaiseHTTPException(HTTP_500_INTERNAL_SERVER_ERROR,
                                    GenerationFailureDetail(m, now))]
    /\ pc' = [pc EXCEPT ![r] = "raised"]
    /\ UNCHANGED <<route, topic, resp, sent, genCalls, now>>

\* A global handler that logs and fails to produce a response.
global_exception_handler_silent(r) ==
    /\ log' = [log EXCEPT ![r] = Append(@, LogRecord("ERROR", "Unhandled exception", <<>>, Str(exc[r])))]
    /\ pc' = [pc EXCEPT ![r] = "dropped"]
    /\ UNCHANGED <<resp, sent>>

\* The handler registered for Exception; the server stays up after it.
global_exception_handler(r) ==
    /\ log' = [log EXCEPT ![r] = Append(@, LogRecord("ERROR", "Unhandled exception", <<>>, Str(exc[r])))]
    /\ resp' = [resp EXCEPT ![r] = GlobalErrorResponse(exc[r])]
    /\ sent' = [sent EXCEPT ![r] = @ + 1]
    /\ pc' = [pc EXCEPT ![r] = "done"]

\* An exception left the endpoint: the framework renders an HTTPException
\* itself and hands every other exception to the registered handler.
HandleException(r) ==
    /\ pc[r] = "raised"
    /\ IF exc[r].type = "HTTPException"
       THEN /\ resp' = [resp EXCEPT ![r] =
                          [status_code |-> exc[r].status_code,
                           body |-> [detail |-> exc[r].detail]]]
            /\ sent' = [sent EXCEPT ![r] = @ + 1]
            /\ pc' = [pc EXCEPT ![r] = "done"]
            /\ UNCHANGED log
       ELSE global_exception_handler(r)
    /\ UNCHANGED <<route, topic, exc, genCalls, genOut, now>>

Next ==
    \/ Tick
    \/ \E r \in Req, k \in {"home", "roadmap"}, t \in Topics : Request(r, k, t)
    \/ \E r \in Req : home(r)
    \/ \E r \in Req : get_generated_response(r)
    \/ \E r \in Req, g \in GenTexts : get_ai_returns(r, g)
    \/ \E r \in Req, m \in GenErrors : get_ai_raises(r, m)
    \/ \E r \in Req : HandleException(r)

Spec == Init /\ [][Next]_vars


\* The event loop runs every started handler, and the exception handling
\* that follows it, to completion; only chain.invoke may never finish.
FairSpec ==
    /\ Spec
    /\ \A r \in Req : WF_vars(home(r))
    /\ \A r \in Req : WF_vars(get_generated_response(r))
    /\ \A r \in Req : WF_vars(HandleException(r))

\* ------------------------------------------------------------- properties
Done(r) == pc[r] = "done"
Roadmap(r) == route[r] = "roadmap"
LenOK(r) == Len(topic[r]) >= 1 /\ Len(topic[r]) <= 100
Contains(fragments, m) == \E i \in DOMAIN fragments : fragments[i] = m
Records(r, level) == {i \in DOMAIN log[r] : log[r][i].level = level}
EventIndex(r, event) == {i \in DOMAIN log[r] : log[r][i].event = event}
SameBody(b1, b2) ==
    /\ DOMAIN b1 = DOMAIN b2
    /\ \A f \in DOMAIN b1 \ {"timestamp"} : b1[f] = b2[f]

\* C1: every answered /roadmap request whose topic is empty or longer than
\* 100 characters has status 400 and a body describing the 1-100 length
\* constraint, and a topic of exactly 100 characters is not rejected.
C1_InvalidTopicIs400 ==
    \A r \in Req : (Done(r) /\ Roadmap(r)) =>
        IF LenOK(r)
        THEN resp[r].status_code # 400
        ELSE /\ resp[r].status_code = 400
             /\ DOMAIN resp[r].body = {"detail"}
             /\ resp[r].body.detail = "Topic must be between 1-100 characters"

\* C2: generation has been invoked only for /roadmap requests whose topic
\* length is in [1,100]; never for an empty or too long topic, never for /.
C2_GenerationOnlyForValidTopic ==
    \A r \in Req : genCalls[r] > 0 => (Roadmap(r) /\ LenOK(r))

C2_Witness ==
    \E r, s \in Req :
        /\ genCalls[r] = 1 /\ Len(topic[r]) = 100
        /\ Done(s) /\ Roadmap(s) /\ Len(topic[s]) = 101 /\ genCalls[s] = 0

\* C3: a /roadmap request with topic length in [1,100] passes validation and
\* invokes generation exactly once, whether the call returns or raises.
C3_GenerationExactlyOnce ==
    \A r \in Req :
        /\ genCalls[r] <= 1
        /\ (Roadmap(r) /\ LenOK(r) /\ pc[r] # "start") => genCalls[r] = 1

C3_Witness ==
    \E r, s \in Req :
        /\ Done(r) /\ genOut[r].kind = "error" /\ genCalls[r] = 1
        /\ Done(s) /\ genOut[s].kind = "text" /\ genCalls[s] = 1

\* C4: when generation returns g for a valid topic t, the response has
\* status 200 and an envelope with response.topic = t and response.data = g.
C4_SuccessEnvelopeEchoes ==
    \A r \in Req : (Done(r) /\ genOut[r].kind = "text") =>
        /\ resp[r].status_code = 200
        /\ resp[r].body.status = 200
        /\ resp[r].body.response.topic = topic[r]
        /\ resp[r].body.response.data = genOut[r].value

C4_Witness ==
    \E r \in Req :
        /\ Done(r)
        /\ topic[r] = <<"P", "y", "t", "h", "o", "n">>
        /\ genOut[r].kind = "text" /\ genOut[r].value = "Step 1..."
        /\ resp[r].status_code = 200
        /\ resp[r].body.response.data = "Step 1..."

\* C5: when generation raises with message m, the response has a 500-class
\* status and a body {status:500, timestamp, message} whose message
\* contains m.
C5_GenerationFailureBody ==
    \A r \in Req : (Done(r) /\ genOut[r].kind = "error") =>
        /\ resp[r].status_code >= 500 /\ resp[r].status_code <= 599
        /\ DOMAIN resp[r].body = {"detail"}
        /\ resp[r].body.detail.status = 500
        /\ Contains(resp[r].body.detail.message, genOut[r].value)

\* C6 (as stated): every answer of GET / has status 200 and an envelope
\* with status 200, an empty topic and the data "API is working".
C6_HomeSaysApiIsWorking ==
    \A r \in Req : (Done(r) /\ route[r] = "home") =>
        /\ resp[r].status_code = 200
        /\ resp[r].body.status = 200
        /\ resp[r].body.response.topic = <<>>
        /\ resp[r].body.response.data = "API is working"

\* C6 (amended): every answer of GET /, after any earlier requests, has
\* status 200 and an envelope with status 200, an empty topic and the data
\* "This service is working"; two answers differ only in the timestamp.
C6_HomeStaticPayload ==
    /\ \A r \in Req : (Done(r) /\ route[r] = "home") =>
        /\ resp[r].status_code = 200
        /\ resp[r].body.status = 200
        /\ resp[r].body.response.topic = <<>>
        /\ resp[r].body.response.data = "This service is working"
    /\ \A r, s \in Req : (Done(r) /\ route[r] = "home" /\ Done(s) /\ route[s] = "home") =>
        /\ resp[r].status_code = resp[s].status_code
        /\ SameBody(resp[r].body, resp[s].body)

C6_Witness ==
    \E r, s \in Req :
        /\ s < r
        /\ Done(s) /\ Roadmap(s) /\ resp[s].status_code = 500
        /\ Done(r) /\ route[r] = "home"

\* C7: every request that is not left waiting for generation is answered
\* exactly once, also when an exception left the endpoint, and the server
\* goes on accepting requests.
C7_EveryRequestAnswered ==
    /\ [](\A r \in Req :
            /\ sent[r] <= 1
            /\ (Done(r) <=> sent[r] = 1)
            /\ (Done(r) => resp[r].status_code \in {200, 400, 500}))
    /\ []((\E r \in Req : pc[r] = "idle") =>
            ENABLED (\E r \in Req, t \in Topics : Request(r, "roadmap", t)))
    /\ \A r \in Req : (pc[r] = "start") ~> (pc[r] = "awaiting" \/ Done(r))
    /\ \A r \in Req : (pc[r] = "raised") ~> Done(r)

C7_Witness ==
    \E r, s \in Req :
        /\ Done(r) /\ genOut[r].kind = "error" /\ sent[r] = 1
        /\ resp[r].status_code = 500
        /\ pc[s] = "start"

\* C8: an exception other than HTTPException that leaves an endpoint is
\* logged as an error by the top-level handler and answered with status
\* 500 and the body {error: "Internal Server Error", detail: its message}.
C8_GlobalHandlerEnvelope ==
    \A r \in Req : (Done(r) /\ exc[r].type \notin {"none", "HTTPException"}) =>
        /\ resp[r].status_code = 500
        /\ DOMAIN resp[r].body = {"error", "detail"}
        /\ resp[r].body.error = "Internal Server Error"
        /\ resp[r].body.detail = exc[r].msg
        /\ \E i \in Records(r, "ERROR") :
              log[r][i].event = "Unhandled exception" /\ log[r][i].text = exc[r].msg

C8_Witness ==
    \E r \in Req :
        /\ Done(r) /\ exc[r].type = "NameError"
        /\ resp[r].body.detail = "name 'HTTPStatus' is not defined"

\* C9: status and body of a response, apart from the timestamp, depend only
\* on the request's own route, topic and generation outcome, and the topic
\* echoed is never the topic of another request.
C9_ResponsesIndependent ==
    /\ \A r, s \in Req :
        (/\ Done(r) /\ Done(s)
         /\ route[r] = route[s] /\ topic[r] = topic[s]
         /\ genOut[r].kind = genOut[s].kind
         /\ genOut[r].kind # "none" => genOut[r].value = genOut[s].value) =>
            /\ resp[r].status_code = resp[s].status_code
            /\ SameBody(resp[r].body, resp[s].body)
    /\ \A r \in Req : (Done(r) /\ resp[r].status_code = 200) =>
            resp[r].body.response.topic = topic[r]

C9_Witness ==
    \E r, s \in Req :
        /\ r < s /\ Done(r) /\ Done(s)
        /\ genOut[r].kind = "text" /\ genOut[s].kind = "text"
        /\ topic[r] # topic[s]
        /\ resp[s].body.timestamp < resp[r].body.timestamp

\* C10: every request is logged; a validation failure logs a warning and
\* no error; a valid /roadmap request logs an info record before the
\* generation call; the success record exists only after generation
\* returned; a generation exception logs exactly one error record.
C10_LogLevels ==
    \A r \in Req :
        /\ \A i \in DOMAIN log[r] : log[r][i].level \in {"INFO", "WARNING", "ERROR"}
        /\ Done(r) => log[r] # <<>>
        /\ (Roadmap(r) /\ ~LenOK(r) /\ Done(r)) =>
              (Records(r, "WARNING") # {} /\ Records(r, "ERROR") = {})
        /\ genCalls[r] > 0 => EventIndex(r, "Generating roadmap for") # {}
        /\ EventIndex(r, "Successfully generated roadmap for") # {} =>
              genOut[r].kind = "text"
        /\ (Done(r) /\ genOut[r].kind = "error") =>
              Cardinality(Records(r, "ERROR")) = 1

====
